---- MODULE Spec2Model ----
(***************************************************************************)
(* The incremental character-profiling pipeline of ai_workflow:            *)
(* regular_nodes.py (chunker, first_name_querier, second_name_querier,     *)
(* profile_retriever_creator, profile_refresher, chunk_updater,            *)
(* summarizer), schemas/states.py (initial_state) and the chunk tables of  *)
(* databases/database.py.  The graph that wires the nodes is not part of   *)
(* the sources; its routing is modelled from the specification (4.6).     *)
(***************************************************************************)
EXTENDS Integers, Sequences, FiniteSets, TLC

VARIABLES
    state,                      \* the State dict threaded through the nodes
    pc,                         \* the orchestrator's position
    error,                      \* the exception that ended the run, or "none"
    files,                      \* file system: path -> chunks TextChunker yields for it
    chunks_table,               \* rows of table chunks, in rowid order
    chunk_character_profiles,   \* rows of table chunk_character_profiles, in insert order
    request,                    \* chain_input of the latest collaborator call
    response,                   \* what the latest collaborator call gave back
    snapshot_cycle,             \* per snapshot row: sequence index of the chunk current when written
    done_entries,               \* number of times the run entered done
    llm_calls,                  \* number of collaborator invocations
    updater_calls,              \* number of chunk_updater calls
    pulled,                     \* the chunks chunk_updater made current, in order
    summarized,                 \* the chunks summarizer folded into last_summary, in order
    env,                        \* the collaborator behind chain.invoke and the graph's wiring
    runs,                       \* per run of the pipeline: the sizes of the tables when it began
    characters,                 \* rows of the legacy table characters
    uuids_drawn,                \* number of uuid4 ids drawn for characters
    fault,                      \* the abort or store failure that ended the run, if any
    inside                      \* where the run is inside the node it is running

vars == << state, pc, error, files, chunks_table, chunk_character_profiles,
           request, response, snapshot_cycle, done_entries, llm_calls,
           updater_calls, pulled, summarized, env, runs, characters,
           uuids_drawn, fault, inside >>

\* what no node of the pipeline touches: the environment, the bookkeeping of
\* runs and faults, and the legacy table
outside == << env, runs, characters, uuids_drawn, fault >>

-----------------------------------------------------------------------------
(* Bounds *)

MaxChunks == 3

MaxCallsAfterEnd == 2

-----------------------------------------------------------------------------
(* Python values *)

None == [py |-> "None"]

List(s) == [py |-> "list", items |-> s]

\* a str held by an attribute of a collaborator's answer
Str(s) == [py |-> "str", chars |-> s]

EmptyDict == [k \in {} |-> 0]

\* dict.get(key, default)
Get(d, key, default) == IF key \in DOMAIN d THEN d[key] ELSE default

\* s[n:] for a str s
StrFrom(s, n) == SubSeq(s, n + 1, Len(s))

-----------------------------------------------------------------------------
(* Inputs: documents and collaborator responses *)

TextPool == << "abcdefg", "hijk", "lmnopqrstu", "vw", "xyz" >>

Docs == { SubSeq(TextPool, 1, n) : n \in 0..MaxChunks }

\* documents of chunks of other lengths (2, 8, 3, 5, 1 characters)
ShortPool == << "vw", "abcdefgh", "xyz", "ijklm", "n" >>

ShortDocs == { SubSeq(ShortPool, 1, n) : n \in 1..MaxChunks }

BookPath == "book.txt"

FilePaths == { "", "missing.txt", BookPath }

Mention(n) == [name |-> n, hint |-> "hint of " \o n]

Ali == Mention("Ali")

Sara == Mention("Sara")

ProfileData(n) ==
    [name |-> n, hint |-> "hint of " \o n, age |-> "20", role |-> "hero",
     physical_characteristics |-> << "tall" >>, personality |-> "brave",
     events |-> << "met " \o n >>, relations |-> << "friend" >>,
     aliases |-> << >>, id |-> "id-" \o n]

\* chain.invoke raised (timeout, transport failure)
Raise == [kind |-> "raise"]

\* chain.invoke returned None
RespNone == [kind |-> "none"]

\* chain.invoke returned an object without the expected attribute
RespNoAttr == [kind |-> "noattr"]

\* chain.invoke returned an object whose attribute holds v
RespObj(v) == [kind |-> "obj", value |-> v]

RecognitionResponses ==
    { Raise, RespNone, RespNoAttr, RespObj(None),
      RespObj(List(<< >>)), RespObj(List(<< Ali >>)),
      RespObj(List(<< Ali, Sara >>)), RespObj(List(<< Sara, Sara >>)) }

EnrichmentResponses ==
    { Raise, RespNone, RespNoAttr, RespObj(None),
      RespObj(List(<< >>)), RespObj(List(<< ProfileData("Ali") >>)),
      RespObj(List(<< ProfileData("Ali"), ProfileData("Sara") >>)) }

SummaryResponses ==
    { Raise, RespNone, RespObj(Str("s1")), RespObj(Str("summary two")) }

NoRequest == [node |-> "none"]

\* the run has not been aborted and no store operation has failed
NoFault == [kind |-> "none", node |-> "none", inserts |-> 0]

-----------------------------------------------------------------------------
(* schemas/states.py *)

initial_state(path) ==
    [file_path |-> path,
     chunk_generator |-> None,
     current_chunk |-> "",
     previous_chunk |-> "",
     last_profiles |-> None,
     last_appearing_characters |-> None,
     no_more_chunks |-> FALSE,
     last_summary |-> "",
     chunk_index |-> 0]

-----------------------------------------------------------------------------
(* databases/database.py *)

\* the rowid AUTOINCREMENT gives the next row of chunks
NextChunkId(table) == Len(table) + 1

insert_chunk(table, chunk_index, chunk_text) ==
    Append(table, [chunk_id |-> NextChunkId(table),
                   chunk_index |-> chunk_index,
                   chunk_text |-> chunk_text])

insert_chunk_character_profile(table, chunk_id, profile) ==
    Append(table, [chunk_id |-> chunk_id, profile_json |-> profile])

\* The operations on the legacy table act on the database file as a whole:
\* db is the record of its three tables.
Database(chars, chunks, profiles) ==
    [characters |-> chars, chunks |-> chunks,
     chunk_character_profiles |-> profiles]

\* id is the uuid4 drawn for the row
insert_character(db, id, name, profile) ==
    [db EXCEPT !.characters =
        Append(@, [id |-> id, name |-> name, profile_json |-> profile])]

update_character(db, id, profile) ==
    LET rows == db.characters IN
      [db EXCEPT !.characters =
          [i \in 1..Len(rows) |->
              IF rows[i].id = id
              THEN [rows[i] EXCEPT !.profile_json = profile]
              ELSE rows[i]]]

delete_character(db, id) ==
    [db EXCEPT !.characters = SelectSeq(@, LAMBDA row : row.id # id)]

clear_database_AllTables(db) ==
    [db EXCEPT !.characters = << >>, !.chunk_character_profiles = << >>]

clear_database(db) == [db EXCEPT !.characters = << >>]

-----------------------------------------------------------------------------
(* graphs/nodes/regular_nodes.py: every node is an operator from the state  *)
(* (and the store, the collaborator's response) to what the call produces: *)
(* raised (the exception, "none" when it returns), delta (the dict it      *)
(* returns) and the store after it.                                        *)

Returned(delta) == [raised |-> "none", delta |-> delta]

Raised(exc) == [raised |-> exc, delta |-> EmptyDict]

\* the loop of chunker numbering the chunks from the end of the document
RECURSIVE InsertChunks_Reversed(_, _, _)
InsertChunks_Reversed(table, chunks, i) ==
    IF i > Len(chunks) THEN table
    ELSE InsertChunks_Reversed(
           insert_chunk(table, Len(chunks) - i, chunks[i]), chunks, i + 1)

\* the loop of chunker storing the position in the table as the index
RECURSIVE InsertChunks_RowIdIndex(_, _, _)
InsertChunks_RowIdIndex(table, chunks, i) ==
    IF i > Len(chunks) THEN table
    ELSE InsertChunks_RowIdIndex(
           insert_chunk(table, NextChunkId(table) - 1, chunks[i]),
           chunks, i + 1)

\* the for loop of chunker: rows inserted for chunks[i..], from index i - 1
RECURSIVE InsertChunks(_, _, _)
InsertChunks(table, chunks, i) ==
    IF i > Len(chunks) THEN table
    ELSE InsertChunks(insert_chunk(table, i - 1, chunks[i]), chunks, i + 1)

\* chunk_index_to_id numbered from 1, as if the table were empty before
ChunkIndexToId_FromOne(table, chunks) ==
    [idx \in 0..(Len(chunks) - 1) |-> 1 + idx]

\* chunk_index_to_id as the loop of chunker builds it
ChunkIndexToId(table, chunks) ==
    [idx \in 0..(Len(chunks) - 1) |-> NextChunkId(table) + idx]

\* chunker as it would be without the os.path.exists test, an unreadable
\* file read as an empty text
chunker_NoExistsCheck(st, fs, table) ==
    IF st.file_path = ""
    THEN [raised |-> "FileNotFoundError", delta |-> EmptyDict, chunks_table |-> table]
    ELSE LET chunks == Get(fs, st.file_path, << >>) IN
         [raised |-> "none",
          delta |-> [chunk_generator |-> [py |-> "generator", chunks |-> chunks, pos |-> 0],
                     chunk_index_to_id |-> ChunkIndexToId(table, chunks)],
          chunks_table |-> InsertChunks(table, chunks, 1)]

chunker(st, fs, table) ==
    IF st.file_path = "" \/ st.file_path \notin DOMAIN fs
    THEN [raised |-> "FileNotFoundError", delta |-> EmptyDict, chunks_table |-> table]
    ELSE LET chunks == fs[st.file_path] IN
         [raised |-> "none",
          delta |-> [chunk_generator |-> [py |-> "generator", chunks |-> chunks, pos |-> 0],
                     chunk_index_to_id |-> ChunkIndexToId(table, chunks)],
          chunks_table |-> InsertChunks(table, chunks, 1)]

\* response.characters if hasattr(response, 'characters') else []
CharactersOf(resp) ==
    IF resp.kind = "obj" THEN resp.value ELSE List(<< >>)

\* the overlap window cut at one third instead of two thirds
first_name_querier_input_FromThird(st) ==
    LET third_of_length_of_previous_chunk == Len(st.previous_chunk) \div 3 IN
    [node |-> "first_name_querier",
     text |-> StrFrom(st.previous_chunk, third_of_length_of_previous_chunk)
                \o " " \o st.current_chunk]

first_name_querier_input(st) ==
    LET third_of_length_of_previous_chunk == Len(st.previous_chunk) \div 3 IN
    [node |-> "first_name_querier",
     text |-> StrFrom(st.previous_chunk, 2 * third_of_length_of_previous_chunk)
                \o " " \o st.current_chunk]

first_name_querier(st, resp) ==
    IF resp.kind = "raise" THEN Raised("CollaboratorError")
    ELSE Returned([last_appearing_characters |-> CharactersOf(resp),
                   chunk_index_to_id |-> Get(st, "chunk_index_to_id", EmptyDict)])

second_name_querier_input(st) ==
    [node |-> "second_name_querier", text |-> st.last_summary]

second_name_querier(st, resp) ==
    IF resp.kind = "raise" THEN Raised("CollaboratorError")
    ELSE Returned([last_appearing_characters |-> CharactersOf(resp),
                   chunk_index_to_id |-> Get(st, "chunk_index_to_id", EmptyDict)])

SkeletonProfile(character) ==
    [name |-> character.name, hint |-> character.hint, age |-> "", role |-> "",
     physical_characteristics |-> << >>, personality |-> "", events |-> << >>,
     relationships |-> << >>, aliases |-> << >>, id |-> ""]

\* profile_retriever_creator building one skeleton per name: a mention
\* whose name came earlier in the list is passed over
profile_retriever_creator_MergingNames(st) ==
    LET last_appearing_characters == st.last_appearing_characters IN
    IF last_appearing_characters = None
    THEN Raised("TypeError")
    ELSE LET items == last_appearing_characters.items
             firsts == { j \in 1..Len(items) :
                           \A i \in 1..(j - 1) : items[i].name # items[j].name }
             kept == SelectSeq([j \in 1..Len(items) |-> j],
                               LAMBDA j : j \in firsts)
         IN Returned(
              [last_profiles |->
                  List([j \in 1..Len(kept) |-> SkeletonProfile(items[kept[j]])]),
               chunk_index_to_id |-> Get(st, "chunk_index_to_id", EmptyDict)])

\* profile_retriever_creator adding its skeletons to the list it finds
profile_retriever_creator_Accumulating(st) ==
    LET last_appearing_characters == st.last_appearing_characters
        found == IF st.last_profiles = None THEN << >>
                 ELSE st.last_profiles.items
    IN
    IF last_appearing_characters = None
    THEN Raised("TypeError")
    ELSE Returned(
           [last_profiles |->
               List(found \o
                    [j \in 1..Len(last_appearing_characters.items) |->
                        SkeletonProfile(last_appearing_characters.items[j])]),
            chunk_index_to_id |-> Get(st, "chunk_index_to_id", EmptyDict)])

profile_retriever_creator(st) ==
    LET last_appearing_characters == st.last_appearing_characters IN
    IF last_appearing_characters = None
    THEN Raised("TypeError")            \* for ... in None
    ELSE Returned(
           [last_profiles |->
               List([j \in 1..Len(last_appearing_characters.items) |->
                        SkeletonProfile(last_appearing_characters.items[j])]),
            chunk_index_to_id |-> Get(st, "chunk_index_to_id", EmptyDict)])

\* Profile(...) as profile_refresher builds it from one returned profile
ProfileOf(profile_data) ==
    [name |-> profile_data.name, hint |-> profile_data.hint,
     age |-> profile_data.age, role |-> profile_data.role,
     physical_characteristics |-> profile_data.physical_characteristics,
     personality |-> profile_data.personality, events |-> profile_data.events,
     relationships |-> profile_data.relations, aliases |-> profile_data.aliases,
     id |-> profile_data.id]

\* the document with the relations stored under the collaborator's key
ProfileDictOf_RelationsKey(profile_data) ==
    [name |-> profile_data.name, hint |-> profile_data.hint,
     age |-> profile_data.age, role |-> profile_data.role,
     physical_characteristics |-> profile_data.physical_characteristics,
     personality |-> profile_data.personality, events |-> profile_data.events,
     relations |-> profile_data.relations, aliases |-> profile_data.aliases]

\* updated_profile_dict, the document of the snapshot row
ProfileDictOf(profile_data) ==
    [name |-> profile_data.name, hint |-> profile_data.hint,
     age |-> profile_data.age, role |-> profile_data.role,
     physical_characteristics |-> profile_data.physical_characteristics,
     personality |-> profile_data.personality, events |-> profile_data.events,
     relationships |-> profile_data.relations, aliases |-> profile_data.aliases]

\* response is None or not hasattr(response, 'profiles') or response.profiles is None
EnrichmentDeclined(resp) ==
    \/ resp.kind = "none"
    \/ resp.kind = "noattr"
    \/ (resp.kind = "obj" /\ resp.value = None)

\* chunk_id is not None: chunk_index_to_id.get(chunk_index, None) found an entry
ChunkIdMapped(st) ==
    Get(st, "chunk_index", 0) \in DOMAIN Get(st, "chunk_index_to_id", EmptyDict)

\* the chunk index itself taken for the identity of the chunk's row
ChunkIdFor_IndexAsId(st) == Get(st, "chunk_index", 0)

\* chunk_id = chunk_index_to_id.get(chunk_index, None), where it is mapped
ChunkIdFor(st) ==
    Get(st, "chunk_index_to_id", EmptyDict)[Get(st, "chunk_index", 0)]

\* the for loop of profile_refresher: the rows inserted for profiles[i..]
RECURSIVE InsertProfiles(_, _, _, _)
InsertProfiles(table, st, profiles, i) ==
    IF i > Len(profiles) THEN table
    ELSE InsertProfiles(
           IF ChunkIdMapped(st)
           THEN insert_chunk_character_profile(table, ChunkIdFor(st),
                                               ProfileDictOf(profiles[i]))
           ELSE table,
           st, profiles, i + 1)

\* the enrichment fed the current chunk instead of the running summary
profile_refresher_input_CurrentChunk(st) ==
    [node |-> "profile_refresher", text |-> st.current_chunk,
     profiles |-> st.last_profiles]

profile_refresher_input(st) ==
    [node |-> "profile_refresher", text |-> st.last_summary,
     profiles |-> st.last_profiles]

\* the decline return with the profile list dropped instead of carried forward
DeclinedReturn_Cleared(st) ==
    [last_profiles |-> List(<< >>),
     chunk_index_to_id |-> Get(st, "chunk_index_to_id", EmptyDict)]

\* what profile_refresher returns when the collaborator declined
DeclinedReturn(st) ==
    [last_profiles |-> Get(st, "last_profiles", List(<< >>)),
     chunk_index_to_id |-> Get(st, "chunk_index_to_id", EmptyDict)]

\* profile_refresher storing the profiles it carries forward on a decline
profile_refresher_PersistingSkeletons(st, resp, table) ==
    IF resp.kind = "raise"
    THEN [raised |-> "CollaboratorError", delta |-> EmptyDict,
          chunk_character_profiles |-> table]
    ELSE IF EnrichmentDeclined(resp)
    THEN [raised |-> "none",
          delta |-> DeclinedReturn(st),
          chunk_character_profiles |->
              table \o [j \in 1..Len(st.last_profiles.items) |->
                           [chunk_id |-> 1,
                            profile_json |-> st.last_profiles.items[j]]]]
    ELSE LET profiles == resp.value.items IN
         [raised |-> "none",
          delta |-> [last_profiles |->
                        List([j \in 1..Len(profiles) |-> ProfileOf(profiles[j])]),
                     chunk_index_to_id |-> Get(st, "chunk_index_to_id", EmptyDict)],
          chunk_character_profiles |->
              InsertProfiles(table, st, profiles, 1)]

profile_refresher(st, resp, table) ==
    IF resp.kind = "raise"
    THEN [raised |-> "CollaboratorError", delta |-> EmptyDict,
          chunk_character_profiles |-> table]
    ELSE IF EnrichmentDeclined(resp)
    THEN [raised |-> "none",
          delta |-> DeclinedReturn(st),
          chunk_character_profiles |-> table]
    ELSE LET profiles == resp.value.items IN
         [raised |-> "none",
          delta |-> [last_profiles |->
                        List([j \in 1..Len(profiles) |-> ProfileOf(profiles[j])]),
                     chunk_index_to_id |-> Get(st, "chunk_index_to_id", EmptyDict)],
          chunk_character_profiles |->
              InsertProfiles(table, st, profiles, 1)]

\* the generator resumed twice for one chunk
Advance_Skipping(gen) == [gen EXCEPT !.pos = @ + 2]

\* the generator of chunker after it yielded its next chunk
Advance(gen) == [gen EXCEPT !.pos = @ + 1]

\* exhaustion reported one chunk early
Exhausted_Early(gen) == gen.pos + 1 >= Len(gen.chunks)

\* next(state['chunk_generator']) raises StopIteration: nothing left to yield
Exhausted(gen) == gen.pos >= Len(gen.chunks)

\* the StopIteration return with the index advanced all the same
ExhaustedReturn_Counting(st) ==
    [no_more_chunks |-> TRUE,
     chunk_index |-> Get(st, "chunk_index", 0) + 1,
     chunk_index_to_id |-> Get(st, "chunk_index_to_id", EmptyDict)]

\* what chunk_updater returns on StopIteration
ExhaustedReturn(st) ==
    [no_more_chunks |-> TRUE,
     chunk_index_to_id |-> Get(st, "chunk_index_to_id", EmptyDict)]

\* chunk_updater leaving previous_chunk as it finds it
chunk_updater_PreviousKept(st) ==
    LET gen == st.chunk_generator IN
    IF gen = None
    THEN [raised |-> "TypeError", delta |-> EmptyDict, generator |-> gen]
    ELSE IF ~Exhausted(gen)
    THEN [raised |-> "none",
          delta |-> [previous_chunk |-> Get(st, "previous_chunk", ""),
                     current_chunk |-> gen.chunks[gen.pos + 1],
                     no_more_chunks |-> FALSE,
                     chunk_index |-> Get(st, "chunk_index", 0) + 1,
                     chunk_index_to_id |-> Get(st, "chunk_index_to_id", EmptyDict)],
          generator |-> Advance(gen)]
    ELSE [raised |-> "none",
          delta |-> ExhaustedReturn(st),
          generator |-> gen]

\* chunk_updater numbering the chunks from 0, by the position of the cursor
chunk_updater_ZeroBased(st) ==
    LET gen == st.chunk_generator IN
    IF gen = None
    THEN [raised |-> "TypeError", delta |-> EmptyDict, generator |-> gen]
    ELSE IF ~Exhausted(gen)
    THEN [raised |-> "none",
          delta |-> [previous_chunk |-> Get(st, "current_chunk", ""),
                     current_chunk |-> gen.chunks[gen.pos + 1],
                     no_more_chunks |-> FALSE,
                     chunk_index |-> gen.pos,
                     chunk_index_to_id |-> Get(st, "chunk_index_to_id", EmptyDict)],
          generator |-> Advance(gen)]
    ELSE [raised |-> "none",
          delta |-> ExhaustedReturn(st),
          generator |-> gen]

chunk_updater(st) ==
    LET gen == st.chunk_generator IN
    IF gen = None
    THEN [raised |-> "TypeError", delta |-> EmptyDict, generator |-> gen]
    ELSE IF ~Exhausted(gen)
    THEN [raised |-> "none",
          delta |-> [previous_chunk |-> Get(st, "current_chunk", ""),
                     current_chunk |-> gen.chunks[gen.pos + 1],
                     no_more_chunks |-> FALSE,
                     chunk_index |-> Get(st, "chunk_index", 0) + 1,
                     chunk_index_to_id |-> Get(st, "chunk_index_to_id", EmptyDict)],
          generator |-> Advance(gen)]
    ELSE [raised |-> "none",
          delta |-> ExhaustedReturn(st),
          generator |-> gen]

\* the summarizer fed the whole previous summary
summarizer_input_WholeSummary(st) ==
    [node |-> "summarizer",
     text |-> st.last_summary \o " " \o st.current_chunk,
     names |-> st.last_appearing_characters]

summarizer_input(st) ==
    LET third_of_length_of_last_summary == Len(st.last_summary) \div 3 IN
    [node |-> "summarizer",
     text |-> StrFrom(st.last_summary, 2 * third_of_length_of_last_summary)
                \o " " \o st.current_chunk,
     names |-> st.last_appearing_characters]

\* summarizer handing back an emptied mention list with the summary
summarizer_ClearingMentions(st, resp) ==
    IF resp.kind = "raise" THEN Raised("CollaboratorError")
    ELSE IF resp.kind # "obj" THEN Raised("AttributeError")
    ELSE Returned([last_summary |-> resp.value.chars,
                   last_appearing_characters |-> List(<< >>),
                   chunk_index_to_id |-> Get(st, "chunk_index_to_id", EmptyDict)])

summarizer(st, resp) ==
    IF resp.kind = "raise" THEN Raised("CollaboratorError")
    ELSE IF resp.kind # "obj" THEN Raised("AttributeError")   \* response.summary
    ELSE Returned([last_summary |-> resp.value.chars,
                   chunk_index_to_id |-> Get(st, "chunk_index_to_id", EmptyDict)])

-----------------------------------------------------------------------------
(* The orchestrator (specification 4.6): each node's returned dict is     *)
(* merged into the running state, last writer wins per field; a node that *)
(* raises ends the run.                                                    *)

Merge(st, delta) == delta @@ st

\* where the run goes after a node: on to nxt, or out with the exception
Route(raised, nxt) == IF raised = "none" THEN nxt ELSE "failed"

\* where the graph goes after the recognition from the overlap window: the
\* recognition from the summary is wired in, left out, or either
AfterOverlap(summary_pass) ==
    CASE summary_pass = "every cycle" -> {"recognize_from_summary"}
      [] summary_pass = "never" -> {"synthesize_skeletons"}
      [] OTHER -> {"recognize_from_summary", "synthesize_skeletons"}

\* A node that inserts commits row by row, and a node that calls the
\* collaborator blocks in chain.invoke; other users of the database file run
\* meanwhile.  The run is not in a call of its own ("idle"), blocked in
\* chain.invoke ("waiting"), or in the part of a node that inserts
\* ("writing"), where inserts counts the inserts of the node that returned.
Idle == [at |-> "idle", inserts |-> 0]

Waiting == [at |-> "waiting", inserts |-> 0]

\* inside chunk_updater, next(state['chunk_generator']) has returned a chunk
Advanced == [at |-> "advanced", inserts |-> 0]

\* inside a node whose chain.invoke has returned its answer
Answered == [at |-> "answered", inserts |-> 0]

Writing(n) == [at |-> "writing", inserts |-> n]

\* the table as the node that is running found it: the table without the
\* rows the node has inserted so far (nothing else appends to the table
\* while the node runs)
AtEntry(table) == SubSeq(table, 1, Len(table) - inside.inserts)

\* sequence index (0-based) of the chunk the cursor yielded last
CurrentSeqIndex(st) == st.chunk_generator.pos - 1

\* any collaborator, either wiring of the recognition from the summary
AnyEnv == [collaborator |-> "any", summary_pass |-> "any"]

\* the start of a run on an empty store, over one of the given documents
InitOn(docs) ==
    /\ \E path \in FilePaths : state = initial_state(path)
    /\ \E doc \in docs : files = [p \in {BookPath} |-> doc]
    /\ pc = "start"
    /\ error = "none"
    /\ chunks_table = << >>
    /\ chunk_character_profiles = << >>
    /\ request = NoRequest
    /\ response = RespNone
    /\ snapshot_cycle = << >>
    /\ done_entries = 0
    /\ llm_calls = 0
    /\ updater_calls = 0
    /\ pulled = << >>
    /\ summarized = << >>
    /\ runs = << [chunks |-> 0, profiles |-> 0] >>
    /\ characters = << >>
    /\ uuids_drawn = 0
    /\ fault = NoFault
    /\ inside = Idle

InitRun == InitOn(Docs)

Init == InitRun /\ env = AnyEnv

\* one pass of the for loop of chunker: insert_chunk has committed the next
\* row
ChunkerInsertsChunk ==
    /\ pc = "start"
    /\ inside.at \in {"idle", "writing"}
    /\ LET r == chunker(state, files, AtEntry(chunks_table)) IN
         /\ r.raised = "none"
         /\ Len(chunks_table) < Len(r.chunks_table)
         /\ chunks_table' = SubSeq(r.chunks_table, 1, Len(chunks_table) + 1)
    /\ inside' = Writing(inside.inserts + 1)
    /\ UNCHANGED << state, pc, error, files, chunk_character_profiles, request,
                    response, snapshot_cycle, done_entries, llm_calls,
                    updater_calls, pulled, summarized, outside >>

\* chunker raises before its loop, or returns after it
ChunkerReturns ==
    /\ pc = "start"
    /\ inside.at \in {"idle", "writing"}
    /\ LET r == chunker(state, files, AtEntry(chunks_table)) IN
         /\ r.raised = "none" => Len(chunks_table) >= Len(r.chunks_table)
         /\ state' = Merge(state, r.delta)
         /\ pc' = Route(r.raised, "chunk_advance")
         /\ error' = r.raised
    /\ inside' = Idle
    /\ UNCHANGED << files, chunks_table, chunk_character_profiles, request,
                    response, snapshot_cycle, done_entries, llm_calls,
                    updater_calls, pulled, summarized, outside >>

\* one call of chunk_updater merged into the state
ApplyChunkUpdater ==
    LET r == chunk_updater(state) IN
      /\ state' = Merge([state EXCEPT !.chunk_generator = r.generator], r.delta)
      /\ error' = r.raised
      /\ updater_calls' = updater_calls + 1
      /\ pulled' = IF "current_chunk" \in DOMAIN r.delta
                   THEN Append(pulled, r.delta.current_chunk)
                   ELSE pulled

ChunkUpdater ==
    /\ pc = "chunk_advance"
    /\ ApplyChunkUpdater
    /\ pc' = IF error' # "none" THEN "failed"
             ELSE IF state'.no_more_chunks THEN "done"
             ELSE "recognize_from_overlap"
    /\ done_entries' = IF pc' = "done" THEN done_entries + 1 ELSE done_entries
    /\ UNCHANGED << files, chunks_table, chunk_character_profiles, request,
                    response, snapshot_cycle, llm_calls,
                    summarized, outside, inside >>

\* a further advance of the exhausted cursor, after the run has ended
ChunkUpdaterAfterEnd ==
    /\ pc = "done"
    /\ updater_calls < state.chunk_generator.pos + 1 + MaxCallsAfterEnd
    /\ ApplyChunkUpdater
    /\ pc' = IF error' # "none" THEN "failed" ELSE "done"
    /\ UNCHANGED << files, chunks_table, chunk_character_profiles, request,
                    response, snapshot_cycle, done_entries, llm_calls,
                    summarized, outside, inside >>

\* first_name_querier has built chain_input and called chain.invoke with it
FirstNameQuerierAsks ==
    /\ pc = "recognize_from_overlap"
    /\ inside = Idle
    /\ request' = first_name_querier_input(state)
    /\ llm_calls' = llm_calls + 1
    /\ inside' = Waiting
    /\ UNCHANGED << state, pc, error, files, chunks_table,
                    chunk_character_profiles, response, snapshot_cycle,
                    done_entries, updater_calls, pulled, summarized, outside >>

\* chain.invoke has answered or raised, and first_name_querier returns
FirstNameQuerierReturns(responses) ==
    /\ pc = "recognize_from_overlap"
    /\ inside = Waiting
    /\ inside' = Idle
    /\ \E resp \in responses,
          nxt \in AfterOverlap(env.summary_pass) :
         LET r == first_name_querier(state, resp) IN
           /\ response' = resp
           /\ state' = Merge(state, r.delta)
           /\ pc' = Route(r.raised, nxt)
           /\ error' = r.raised
    /\ UNCHANGED << files, chunks_table, chunk_character_profiles, request,
                    snapshot_cycle, done_entries, llm_calls, updater_calls,
                    pulled, summarized, outside >>

\* second_name_querier has built chain_input and called chain.invoke with it
SecondNameQuerierAsks ==
    /\ pc = "recognize_from_summary"
    /\ inside = Idle
    /\ request' = second_name_querier_input(state)
    /\ llm_calls' = llm_calls + 1
    /\ inside' = Waiting
    /\ UNCHANGED << state, pc, error, files, chunks_table,
                    chunk_character_profiles, response, snapshot_cycle,
                    done_entries, updater_calls, pulled, summarized, outside >>

\* chain.invoke has answered or raised, and second_name_querier returns
SecondNameQuerierReturns(responses) ==
    /\ pc = "recognize_from_summary"
    /\ inside = Waiting
    /\ inside' = Idle
    /\ \E resp \in responses :
         LET r == second_name_querier(state, resp) IN
           /\ response' = resp
           /\ state' = Merge(state, r.delta)
           /\ pc' = Route(r.raised, "synthesize_skeletons")
           /\ error' = r.raised
    /\ UNCHANGED << files, chunks_table, chunk_character_profiles, request,
                    snapshot_cycle, done_entries, llm_calls, updater_calls,
                    pulled, summarized, outside >>

ProfileRetrieverCreator ==
    /\ pc = "synthesize_skeletons"
    /\ LET r == profile_retriever_creator(state) IN
         /\ state' = Merge(state, r.delta)
         /\ pc' = Route(r.raised, "enrich_profiles")
         /\ error' = r.raised
    /\ UNCHANGED << files, chunks_table, chunk_character_profiles, request,
                    response, snapshot_cycle, done_entries, llm_calls,
                    updater_calls, pulled,
                    summarized, outside, inside >>

\* profile_refresher has built chain_input and called chain.invoke with it
ProfileRefresherAsks ==
    /\ pc = "enrich_profiles"
    /\ inside = Idle
    /\ request' = profile_refresher_input(state)
    /\ llm_calls' = llm_calls + 1
    /\ inside' = Waiting
    /\ UNCHANGED << state, pc, error, files, chunks_table,
                    chunk_character_profiles, response, snapshot_cycle,
                    done_entries, updater_calls, pulled, summarized, outside >>

\* chain.invoke has answered, and profile_refresher goes on to its decline
\* test and its loop, or chain.invoke has raised
ProfileRefresherReceives(responses) ==
    /\ pc = "enrich_profiles"
    /\ inside = Waiting
    /\ \E resp \in responses :
         LET r == profile_refresher(state, resp, chunk_character_profiles) IN
           /\ inside' = IF r.raised = "none" THEN Writing(0) ELSE Idle
           /\ response' = resp
           /\ pc' = Route(r.raised, pc)
           /\ error' = r.raised
    /\ UNCHANGED << state, files, chunks_table, chunk_character_profiles,
                    request, snapshot_cycle, done_entries, llm_calls,
                    updater_calls, pulled, summarized, outside >>

\* one pass of the for loop of profile_refresher in which
\* insert_chunk_character_profile has committed the next row
ProfileRefresherInsertsProfile ==
    /\ pc = "enrich_profiles"
    /\ inside.at = "writing"
    /\ LET r == profile_refresher(state, response,
                                  AtEntry(chunk_character_profiles)) IN
         /\ Len(chunk_character_profiles) < Len(r.chunk_character_profiles)
         /\ chunk_character_profiles' =
               SubSeq(r.chunk_character_profiles, 1,
                      Len(chunk_character_profiles) + 1)
    /\ snapshot_cycle' = Append(snapshot_cycle, CurrentSeqIndex(state))
    /\ inside' = Writing(inside.inserts + 1)
    /\ UNCHANGED << state, pc, error, files, chunks_table, request, response,
                    done_entries, llm_calls, updater_calls, pulled, summarized,
                    outside >>

\* profile_refresher returns: after the decline test, or after its loop
ProfileRefresherReturns ==
    /\ pc = "enrich_profiles"
    /\ inside.at = "writing"
    /\ LET r == profile_refresher(state, response,
                                  AtEntry(chunk_character_profiles)) IN
         /\ Len(chunk_character_profiles) >= Len(r.chunk_character_profiles)
         /\ state' = Merge(state, r.delta)
         /\ pc' = Route(r.raised, "refresh_summary")
         /\ error' = r.raised
    /\ inside' = Idle
    /\ UNCHANGED << files, chunks_table, chunk_character_profiles, request,
                    response, snapshot_cycle, done_entries, llm_calls,
                    updater_calls, pulled, summarized, outside >>

\* summarizer has built chain_input and called chain.invoke with it
SummarizerAsks ==
    /\ pc = "refresh_summary"
    /\ inside = Idle
    /\ request' = summarizer_input(state)
    /\ llm_calls' = llm_calls + 1
    /\ inside' = Waiting
    /\ UNCHANGED << state, pc, error, files, chunks_table,
                    chunk_character_profiles, response, snapshot_cycle,
                    done_entries, updater_calls, pulled, summarized, outside >>

\* chain.invoke has answered or raised, and summarizer returns
SummarizerReturns(responses) ==
    /\ pc = "refresh_summary"
    /\ inside = Waiting
    /\ inside' = Idle
    /\ \E resp \in responses :
         LET r == summarizer(state, resp) IN
           /\ response' = resp
           /\ state' = Merge(state, r.delta)
           /\ pc' = Route(r.raised, "chunk_advance")
           /\ error' = r.raised
           /\ summarized' = IF r.raised = "none"
                            THEN Append(summarized, state.current_chunk)
                            ELSE summarized
    /\ UNCHANGED << files, chunks_table, chunk_character_profiles, request,
                    snapshot_cycle, done_entries, llm_calls, updater_calls,
                    pulled, outside >>

Next ==
    \/ ChunkerInsertsChunk
    \/ ChunkerReturns
    \/ ChunkUpdater
    \/ ChunkUpdaterAfterEnd
    \/ FirstNameQuerierAsks
    \/ FirstNameQuerierReturns(RecognitionResponses)
    \/ SecondNameQuerierAsks
    \/ SecondNameQuerierReturns(RecognitionResponses)
    \/ ProfileRetrieverCreator
    \/ ProfileRefresherAsks
    \/ ProfileRefresherReceives(EnrichmentResponses)
    \/ ProfileRefresherInsertsProfile
    \/ ProfileRefresherReturns
    \/ SummarizerAsks
    \/ SummarizerReturns(SummaryResponses)

Spec == Init /\ [][Next]_vars

-----------------------------------------------------------------------------
(* Runs over an existing document in which the collaborator only declines *)
(* or answers: recognition gives a character list (possibly empty) or an  *)
(* answer without the attribute, enrichment gives profiles (possibly      *)
(* none) or declines, summarization answers.                              *)
(* The run is a single thread that takes its next step whenever it has    *)
(* one, hence the weak fairness.                                          *)

RecognitionInScope == RecognitionResponses \ { Raise, RespObj(None) }

EnrichmentInScope == EnrichmentResponses \ { Raise }

SummaryInScope == SummaryResponses \ { Raise, RespNone }

InitExisting == Init /\ state.file_path = BookPath

NextInScope ==
    \/ ChunkerInsertsChunk
    \/ ChunkerReturns
    \/ ChunkUpdater
    \/ ChunkUpdaterAfterEnd
    \/ FirstNameQuerierAsks
    \/ FirstNameQuerierReturns(RecognitionInScope)
    \/ SecondNameQuerierAsks
    \/ SecondNameQuerierReturns(RecognitionInScope)
    \/ ProfileRetrieverCreator
    \/ ProfileRefresherAsks
    \/ ProfileRefresherReceives(EnrichmentInScope)
    \/ ProfileRefresherInsertsProfile
    \/ ProfileRefresherReturns
    \/ SummarizerAsks
    \/ SummarizerReturns(SummaryInScope)

SpecInScope == InitExisting /\ [][NextInScope]_vars /\ WF_vars(NextInScope)

-----------------------------------------------------------------------------
(* Repeated runs against one store.  characters.sqlite outlives a run, so  *)
(* a later run of the pipeline starts from initial_state on the tables the *)
(* earlier runs left.  Between the steps of a run, also while a node waits *)
(* for the collaborator or between two of its inserts, any caller may use  *)
(* the operations of CharacterDatabase on the legacy table.  The collaborator  *)
(* is a fixed function from the request to the response, and the graph is  *)
(* wired one way for all runs.                                             *)

MaxRuns == 2

MaxCharacters == 1

Collaborators == { "echo", "quiet", "brittle" }

\* the response of collaborator c to the request req
Answer(c, req) ==
    LET recognition == req.node \in {"first_name_querier", "second_name_querier"}
        enrichment == req.node = "profile_refresher"
    IN
    CASE c = "echo" /\ recognition ->
           IF Len(req.text) % 2 = 0 THEN RespObj(List(<< Ali >>))
           ELSE RespObj(List(<< Ali, Sara >>))
      [] c = "echo" /\ enrichment ->
           IF req.profiles = None THEN RespNone
           ELSE RespObj(List([i \in 1..Len(req.profiles.items) |->
                                ProfileData(req.profiles.items[i].name)]))
      [] c = "echo" ->
           IF Len(req.text) % 2 = 0 THEN RespObj(Str("s1"))
           ELSE RespObj(Str("summary two"))
      [] c = "quiet" /\ recognition ->
           IF Len(req.text) % 2 = 0 THEN RespNoAttr
           ELSE RespObj(List(<< Ali >>))
      [] c = "quiet" /\ enrichment -> RespNone
      [] c = "quiet" -> RespObj(Str("s1"))
      [] c = "brittle" /\ recognition ->
           IF Len(req.text) > 12 THEN RespObj(None)
           ELSE RespObj(List(<< Sara, Sara >>))
      [] c = "brittle" /\ enrichment ->
           RespObj(List(<< ProfileData("Ali"), ProfileData("Sara") >>))
      [] OTHER ->
           IF Len(req.text) > 10 THEN Raise ELSE RespObj(Str("summary two"))

InitStore ==
    /\ InitOn(Docs \cup ShortDocs)
    /\ env \in [collaborator : Collaborators,
                summary_pass : {"every cycle", "never"}]

\* the pipeline is started again on the same document and the same store
StartRun ==
    /\ pc \in {"done", "failed"}
    /\ Len(runs) < MaxRuns
    /\ state' = initial_state(state.file_path)
    /\ pc' = "start"
    /\ error' = "none"
    /\ request' = NoRequest
    /\ response' = RespNone
    /\ done_entries' = 0
    /\ llm_calls' = 0
    /\ updater_calls' = 0
    /\ pulled' = << >>
    /\ summarized' = << >>
    /\ runs' = Append(runs, [chunks |-> Len(chunks_table),
                             profiles |-> Len(chunk_character_profiles)])
    /\ fault' = NoFault
    /\ inside' = Idle
    /\ UNCHANGED << files, chunks_table, chunk_character_profiles,
                    snapshot_cycle, env, characters, uuids_drawn >>

LegacyProfiles ==
    { ProfileData("Ali"), [ProfileData("Ali") EXCEPT !.age = "21"] }

\* the database file after an operation of CharacterDatabase took it to db
StoreBecomes(db) ==
    /\ characters' = db.characters
    /\ chunks_table' = db.chunks
    /\ chunk_character_profiles' = db.chunk_character_profiles

InsertCharacter ==
    /\ uuids_drawn < MaxCharacters
    /\ \E profile \in LegacyProfiles :
         StoreBecomes(insert_character(
             Database(characters, chunks_table, chunk_character_profiles),
             uuids_drawn + 1, profile.name, profile))
    /\ uuids_drawn' = uuids_drawn + 1
    /\ UNCHANGED << state, pc, error, files, request, response,
                    snapshot_cycle, done_entries, llm_calls, updater_calls,
                    pulled, summarized, env, runs, fault, inside >>

UpdateCharacter ==
    /\ \E id \in 1..uuids_drawn, profile \in LegacyProfiles :
         StoreBecomes(update_character(
             Database(characters, chunks_table, chunk_character_profiles),
             id, profile))
    /\ UNCHANGED << state, pc, error, files, request, response,
                    snapshot_cycle, done_entries, llm_calls, updater_calls,
                    pulled, summarized, env, runs, uuids_drawn, fault,
                    inside >>

DeleteCharacter ==
    /\ \E id \in 1..uuids_drawn :
         StoreBecomes(delete_character(
             Database(characters, chunks_table, chunk_character_profiles),
             id))
    /\ UNCHANGED << state, pc, error, files, request, response,
                    snapshot_cycle, done_entries, llm_calls, updater_calls,
                    pulled, summarized, env, runs, uuids_drawn, fault,
                    inside >>

ClearDatabase ==
    /\ StoreBecomes(clear_database(
           Database(characters, chunks_table, chunk_character_profiles)))
    /\ UNCHANGED << state, pc, error, files, request, response,
                    snapshot_cycle, done_entries, llm_calls, updater_calls,
                    pulled, summarized, env, runs, uuids_drawn, fault,
                    inside >>

NextStore ==
    \/ ChunkerInsertsChunk
    \/ ChunkerReturns
    \/ ChunkUpdater
    \/ ChunkUpdaterAfterEnd
    \/ FirstNameQuerierAsks
    \/ FirstNameQuerierReturns({Answer(env.collaborator, request)})
    \/ SecondNameQuerierAsks
    \/ SecondNameQuerierReturns({Answer(env.collaborator, request)})
    \/ ProfileRetrieverCreator
    \/ ProfileRefresherAsks
    \/ ProfileRefresherReceives({Answer(env.collaborator, request)})
    \/ ProfileRefresherInsertsProfile
    \/ ProfileRefresherReturns
    \/ SummarizerAsks
    \/ SummarizerReturns({Answer(env.collaborator, request)})
    \/ StartRun
    \/ InsertCharacter
    \/ UpdateCharacter
    \/ DeleteCharacter
    \/ ClearDatabase

SpecStore == InitStore /\ [][NextStore]_vars

-----------------------------------------------------------------------------
(* Runs that are cut short.  The process may be stopped between two nodes,  *)
(* inside chunk_updater after next() has advanced the generator, inside a  *)
(* node while it waits for the collaborator, inside a node that holds the   *)
(* answer and has not returned, or inside a node between two inserts, and   *)
(* an insert into chunks or into chunk_character_profiles may raise.        *)
(* Every insert opens its own                                               *)
(* connection and commits before it returns, so what the inserts that       *)
(* returned wrote is in the file; the dict of the interrupted node is never *)
(* returned, so the state is not merged.                                    *)

\* the table in the file when the process stops, given the table before the
\* node began and the table as the inserts that returned left it: every
\* insert has committed
Committed_OneTransaction(before, at_stop) == before

Committed(before, at_stop) == at_stop

\* the process is stopped inside node: the tables keep what is committed,
\* no dict is returned and none is merged
Stopped(node) ==
    /\ pc \notin {"done", "failed", "aborted"}
    /\ pc' = "aborted"
    /\ chunks_table' =
          IF pc = "start"
          THEN Committed(AtEntry(chunks_table), chunks_table)
          ELSE chunks_table
    /\ chunk_character_profiles' =
          IF pc = "enrich_profiles"
          THEN Committed(AtEntry(chunk_character_profiles),
                         chunk_character_profiles)
          ELSE chunk_character_profiles
    /\ fault' = [kind |-> "abort", node |-> node, inserts |-> inside.inserts]
    /\ UNCHANGED << error, files, request, snapshot_cycle, done_entries,
                    llm_calls, updater_calls, pulled, summarized, env, runs,
                    characters, uuids_drawn >>

\* the process is stopped where the run is: the memory of the run is what
\* the steps taken so far have made it
Abort(node) ==
    /\ Stopped(node)
    /\ UNCHANGED << state, response, inside >>

\* the process is stopped between two nodes: the dict of the node before is
\* merged and the next node has not been called
AbortBetweenNodes == inside = Idle /\ Abort("none")

\* the process is stopped inside a node that has called chain.invoke and has
\* no answer yet: the request is made, nothing is received, written or merged
AbortWaitingForCollaborator == inside = Waiting /\ Abort(request.node)

\* the process is stopped inside chunk_updater after next() has returned a
\* chunk and before the node returns: the generator object of the state has
\* moved on in place, the dict with the new chunks and index is never built
AbortInChunkUpdater ==
    /\ pc = "chunk_advance"
    /\ inside = Idle
    /\ state.chunk_generator # None
    /\ ~Exhausted(state.chunk_generator)
    /\ state' = [state EXCEPT !.chunk_generator = chunk_updater(state).generator]
    /\ inside' = Advanced
    /\ Stopped("chunk_updater")
    /\ UNCHANGED response

\* the process is stopped inside first_name_querier, second_name_querier or
\* summarizer after chain.invoke has returned and before the node returns:
\* the answer is held, nothing is merged
AbortHoldingAnswer(responses) ==
    /\ pc \in {"recognize_from_overlap", "recognize_from_summary",
               "refresh_summary"}
    /\ inside = Waiting
    /\ \E resp \in responses :
         /\ resp.kind # "raise"
         /\ response' = resp
    /\ inside' = Answered
    /\ Stopped(request.node)
    /\ UNCHANGED state

\* the process is stopped inside chunker after some of its inserts returned
AbortInChunker ==
    pc = "start" /\ inside.at = "writing" /\ Abort("chunker")

\* the process is stopped inside profile_refresher after the collaborator
\* answered, before the first insert or after some inserts returned
AbortInProfileRefresher ==
    pc = "enrich_profiles" /\ inside.at = "writing"
        /\ Abort("profile_refresher")

\* chunker whose insert_chunk raises in pass n + 1 of the loop: nothing
\* catches the exception, the rows of the passes before are committed
chunker_insert_raising(st, fs, table, n) ==
    [raised |-> "sqlite3.Error",
     delta |-> EmptyDict,
     chunks_table |-> InsertChunks(table, SubSeq(fs[st.file_path], 1, n), 1)]

\* the next insert of chunker fails
ChunkerInsertFails ==
    /\ pc = "start"
    /\ inside.at \in {"idle", "writing"}
    /\ LET whole == chunker(state, files, AtEntry(chunks_table))
           r == chunker_insert_raising(state, files, AtEntry(chunks_table),
                                       inside.inserts)
       IN /\ whole.raised = "none"
          /\ Len(chunks_table) < Len(whole.chunks_table)
          /\ state' = Merge(state, r.delta)
          /\ chunks_table' = r.chunks_table
          /\ pc' = Route(r.raised, "chunk_advance")
          /\ error' = r.raised
    /\ fault' = [kind |-> "insert failure", node |-> "chunker",
                 inserts |-> inside.inserts]
    /\ inside' = Idle
    /\ UNCHANGED << files, chunk_character_profiles, request, response,
                    snapshot_cycle, done_entries, llm_calls, updater_calls,
                    pulled, summarized, env, runs, characters, uuids_drawn >>

\* the rows of chunk_character_profiles after the loop of profile_refresher
\* has passed n of the returned profiles
PartlyRefreshed(st, resp, table, n) ==
    InsertProfiles(table, st, SubSeq(resp.value.items, 1, n), 1)

\* profile_refresher whose insert_chunk_character_profile raises in pass
\* n + 1 of the loop, swallowed like a decline
profile_refresher_insert_raising_Swallowed(st, resp, table, n) ==
    [raised |-> "none",
     delta |-> DeclinedReturn(st),
     chunk_character_profiles |-> PartlyRefreshed(st, resp, table, n)]

\* profile_refresher whose insert_chunk_character_profile raises in pass
\* n + 1 of the loop: nothing catches the exception
profile_refresher_insert_raising(st, resp, table, n) ==
    [raised |-> "sqlite3.Error",
     delta |-> EmptyDict,
     chunk_character_profiles |-> PartlyRefreshed(st, resp, table, n)]

\* the next insert of profile_refresher fails
ProfileRefresherInsertFails ==
    /\ pc = "enrich_profiles"
    /\ inside.at = "writing"
    /\ LET before == AtEntry(chunk_character_profiles)
           whole == profile_refresher(state, response, before)
           r == profile_refresher_insert_raising(state, response, before,
                                                 inside.inserts)
       IN /\ Len(chunk_character_profiles)
                < Len(whole.chunk_character_profiles)
          /\ state' = Merge(state, r.delta)
          /\ chunk_character_profiles' = r.chunk_character_profiles
          /\ pc' = Route(r.raised, "refresh_summary")
          /\ error' = r.raised
    /\ fault' = [kind |-> "insert failure", node |-> "profile_refresher",
                 inserts |-> inside.inserts]
    /\ inside' = Idle
    /\ UNCHANGED << files, chunks_table, request, response, snapshot_cycle,
                    done_entries, llm_calls, updater_calls, pulled, summarized,
                    env, runs, characters, uuids_drawn >>

NextFaults ==
    \/ NextStore
    \/ AbortBetweenNodes
    \/ AbortInChunkUpdater
    \/ AbortWaitingForCollaborator
    \/ AbortHoldingAnswer({Answer(env.collaborator, request)})
    \/ AbortInChunker
    \/ AbortInProfileRefresher
    \/ ChunkerInsertFails
    \/ ProfileRefresherInsertFails

SpecFaults == InitStore /\ [][NextFaults]_vars

-----------------------------------------------------------------------------
(* Properties *)

\* the step taken ends a call of profile_refresher: the node returns or
\* the exception of the collaborator leaves it
IsProfileRefresherStep ==
    pc = "enrich_profiles" /\ pc' \in {"refresh_summary", "failed"}

\* chunk_character_profiles as the call of profile_refresher found it
ProfilesAtEntry == AtEntry(chunk_character_profiles)

\* the step taken is a call of chunk_updater
IsChunkUpdaterStep == updater_calls' = updater_calls + 1

\* the chunk identity insert_chunk returned for sequence index i
StoredChunkId(i) ==
    (CHOOSE row \in { chunks_table[k] : k \in 1..Len(chunks_table) } :
        row.chunk_index = i).chunk_id

\* C1: every snapshot row written in the cycle that processes the chunk of
\* sequence index i carries the chunk identity insert_chunk returned for i.
C1_SnapshotKeyedToCurrentChunk ==
    \A j \in 1..Len(chunk_character_profiles) :
        chunk_character_profiles[j].chunk_id = StoredChunkId(snapshot_cycle[j])

\* C2: whenever profile_refresher is about to run, chunk_index_to_id has an
\* entry for the state's current chunk_index.
C2_CurrentIndexMapped ==
    pc = "enrich_profiles" =>
        state.chunk_index \in DOMAIN state.chunk_index_to_id

\* the enrichment response is None, has no profiles attribute, or profiles is None
DeclineResponse(resp) ==
    resp \in { RespNone, RespNoAttr, RespObj(None) }

\* C3: when the enrichment collaborator declines, profile_refresher returns
\* last_profiles equal to its pre-call value, inserts no snapshot row and
\* raises no error.
C3_DeclineCarriesForward ==
    [][ (IsProfileRefresherStep /\ DeclineResponse(response'))
          => /\ state'.last_profiles = state.last_profiles
             /\ chunk_character_profiles' = ProfilesAtEntry
             /\ error' = "none"
             /\ pc' = "refresh_summary" ]_vars

\* a decline met a non-empty profile list and the run went on
C3_Witness ==
    /\ pc = "refresh_summary"
    /\ request.node = "profile_refresher"
    /\ DeclineResponse(response)
    /\ state.last_profiles # List(<< >>)
    /\ error = "none"

\* C4: an enrichment response whose profile list is empty is handled as a
\* decline: the previous profile list is returned unchanged and no snapshot
\* row is written.
C4_EmptyListIsDecline ==
    [][ (IsProfileRefresherStep /\ response' = RespObj(List(<< >>)))
          => /\ state'.last_profiles = state.last_profiles
             /\ chunk_character_profiles' = ProfilesAtEntry ]_vars

\* C5: a collaborator call that raises resolves like a decline and the run
\* goes on to the next state; it does not end the run.
C5_RaiseIsDecline ==
    response = Raise => (pc # "failed" /\ error = "none")

\* the texts of the rows of chunks, in sequence order
PersistedChunks == [k \in 1..Len(chunks_table) |-> chunks_table[k].chunk_text]

\* C6: a run over an existing document, whatever the enrichment declines
\* and empty recognition results, eventually reaches the terminal state,
\* having pulled each persisted chunk once, in sequence order.
C6_ReachesTerminal ==
    <>( /\ pc = "done"
        /\ state.no_more_chunks
        /\ pulled = files[BookPath]
        /\ pulled = PersistedChunks )

\* a run of two or more chunks ended whose last enrichment declined and
\* left the skeleton profiles in place
C6_Witness ==
    /\ pc = "done"
    /\ Len(pulled) >= 2
    /\ state.last_profiles # List(<< >>)
    /\ state.last_profiles.items[1].id = ""
    /\ chunk_character_profiles = << >>

\* the recognition response is None, has no characters attribute, or a null one
NoCharacterList(resp) ==
    resp \in { RespNone, RespNoAttr, RespObj(None) }

\* C7: for a recognition response without a usable character list the
\* querier sets last_appearing_characters to an empty list, never null, and
\* profile_retriever_creator can iterate it.
C7_NoListYieldsEmptyList ==
    (request.node \in {"first_name_querier", "second_name_querier"}
        /\ inside = Idle
        /\ NoCharacterList(response))
      => /\ state.last_appearing_characters = List(<< >>)
         /\ error = "none"

\* file_path is empty or names no existing file
FileMissing == state.file_path = "" \/ state.file_path \notin DOMAIN files

\* C8: with file_path empty or naming no existing file, chunker fails with
\* a not-found error: no chunk row, no cursor, no mapping, no later step.
C8_MissingFileFailsFast ==
    FileMissing =>
        /\ chunks_table = << >>
        /\ state.chunk_generator = None
        /\ "chunk_index_to_id" \notin DOMAIN state
        /\ pc \in {"start", "failed"}
        /\ (pc = "failed" => error = "FileNotFoundError")
        /\ llm_calls = 0
        /\ updater_calls = 0
        /\ chunk_character_profiles = << >>

\* chunker has run on a missing file
C8_Witness ==
    /\ FileMissing
    /\ pc = "failed"
    /\ error = "FileNotFoundError"

\* every chunk of the cursor has been pulled
CursorExhausted ==
    /\ state.chunk_generator # None
    /\ state.chunk_generator.pos = Len(state.chunk_generator.chunks)

\* C9: chunk_updater on an exhausted cursor raises nothing, sets
\* no_more_chunks and leaves previous_chunk, current_chunk and chunk_index
\* alone; a further call gives the same state again; no_more_chunks, once
\* set, stays set.
C9_ExhaustedAdvanceIsNoOp ==
    /\ [][ (IsChunkUpdaterStep /\ CursorExhausted)
             => /\ error' = "none"
                /\ state'.no_more_chunks
                /\ state'.previous_chunk = state.previous_chunk
                /\ state'.current_chunk = state.current_chunk
                /\ state'.chunk_index = state.chunk_index
                /\ (state.no_more_chunks => state' = state) ]_vars
    /\ [][ state.no_more_chunks => state'.no_more_chunks ]_vars

\* the exhausted cursor of a non-empty document has been advanced again
C9_Witness ==
    /\ pc = "done"
    /\ updater_calls = state.chunk_generator.pos + 1 + MaxCallsAfterEnd
    /\ state.chunk_generator.pos >= 2
    /\ state.no_more_chunks

\* C10: done is entered once per run, only with the cursor exhausted, and
\* after it no collaborator call is made, no row is inserted and no field
\* of the state changes.
C10_DoneIsFinal ==
    /\ [](done_entries <= 1)
    /\ [](pc = "done" => (done_entries = 1 /\ CursorExhausted))
    /\ [][ pc = "done"
             => /\ pc' = "done"
                /\ state' = state
                /\ llm_calls' = llm_calls
                /\ chunks_table' = chunks_table
                /\ chunk_character_profiles' = chunk_character_profiles
                /\ done_entries' = done_entries ]_vars

\* done was entered after two cycles and a step was taken after it
C10_Witness ==
    /\ pc = "done"
    /\ done_entries = 1
    /\ state.chunk_index = 2
    /\ updater_calls > state.chunk_generator.pos + 1

\* the step taken is a call of chunker that returned
IsChunkerStep == pc = "start" /\ pc' = "chunk_advance"

\* C11: a call of chunker on a document of N chunks appends exactly N rows
\* to chunks, with sequence indices 0..N-1 and the chunk texts in document
\* order, and returns a mapping with keys exactly 0..N-1 in which key i is
\* the identity of the row holding index i; distinct indices have distinct
\* identities, none of them the identity of an earlier row.
C11_ChunkerInsertsOneRowPerChunk ==
    [][ /\ Len(chunks_table') >= Len(chunks_table)
        /\ SubSeq(chunks_table', 1, Len(chunks_table)) = chunks_table
        /\ IsChunkerStep =>
          LET doc == files[state.file_path]
              N == Len(doc)
              found == AtEntry(chunks_table)
              old == Len(found)
              map == state'.chunk_index_to_id
          IN /\ Len(chunks_table') = old + N
             /\ SubSeq(chunks_table', 1, old) = found
             /\ DOMAIN map = 0..(N - 1)
             /\ \A i \in 0..(N - 1) :
                  /\ chunks_table'[old + 1 + i].chunk_index = i
                  /\ chunks_table'[old + 1 + i].chunk_text = doc[i + 1]
                  /\ chunks_table'[old + 1 + i].chunk_id = map[i]
             /\ \A i, j \in 0..(N - 1) : i # j => map[i] # map[j]
             /\ \A i \in 0..(N - 1), k \in 1..old :
                  found[k].chunk_id # map[i] ]_vars

\* chunker has just returned in a second run over a document of two chunks
\* or more, on the store the first run filled
C11_Witness ==
    /\ pc = "chunk_advance"
    /\ state.chunk_index = 0
    /\ Len(runs) = 2
    /\ runs[2].chunks >= 2
    /\ Len(chunks_table) = 2 * runs[2].chunks

\* C12: in every state of the table chunks, also after a further run on
\* the same store, no two rows share a sequence index, and the sequence
\* index increases with the row identity.
C12_SequenceIndexUnique ==
    \A i, j \in 1..Len(chunks_table) :
        chunks_table[i].chunk_id < chunks_table[j].chunk_id
            => chunks_table[i].chunk_index < chunks_table[j].chunk_index

\* C13: chunk_character_profiles is append-only.  No step of the pipeline
\* and no operation of CharacterDatabase (clear_database, update_character
\* and delete_character included) changes or removes a row that exists, and
\* an enrichment that writes appends one row per returned profile, whatever
\* rows the store holds for the same character.
C13_SnapshotsAppendOnly ==
    [][ /\ Len(chunk_character_profiles') >= Len(chunk_character_profiles)
        /\ SubSeq(chunk_character_profiles', 1, Len(chunk_character_profiles))
              = chunk_character_profiles
        /\ ( /\ IsProfileRefresherStep
             /\ error' = "none"
             /\ ~EnrichmentDeclined(response')
             /\ ChunkIdMapped(state) )
           => Len(chunk_character_profiles')
                = Len(ProfilesAtEntry) + Len(response'.value.items)
      ]_vars

\* the same character has a snapshot row under two chunks, and the legacy
\* table, filled earlier, has been emptied
C13_Witness ==
    /\ \E i, j \in 1..Len(chunk_character_profiles) :
         /\ chunk_character_profiles[i].profile_json.name
              = chunk_character_profiles[j].profile_json.name
         /\ chunk_character_profiles[i].chunk_id
              # chunk_character_profiles[j].chunk_id
    /\ uuids_drawn = 1
    /\ characters = << >>

\* positions in chunks of the rows run r inserted
RunChunks(r) ==
    (runs[r].chunks + 1) ..
        (IF r < Len(runs) THEN runs[r + 1].chunks ELSE Len(chunks_table))

\* positions in chunk_character_profiles of the rows run r inserted
RunSnapshots(r) ==
    (runs[r].profiles + 1) ..
        (IF r < Len(runs) THEN runs[r + 1].profiles
         ELSE Len(chunk_character_profiles))

\* C14: every row of chunk_character_profiles references the identity of a
\* row of chunks that the chunker of the same run inserted; no snapshot
\* row references an identity the chunker of its run did not produce.
C14_SnapshotReferencesChunkOfRun ==
    \A r \in 1..Len(runs) :
        \A j \in RunSnapshots(r) :
            \E k \in RunChunks(r) :
                chunks_table[k].chunk_id
                    = chunk_character_profiles[j].chunk_id

\* the second run on the store has written a snapshot row
C14_Witness ==
    /\ Len(runs) = 2
    /\ runs[2].profiles > 0
    /\ Len(chunk_character_profiles) > runs[2].profiles

\* C15: a call of profile_refresher that writes no snapshot row (the
\* collaborator declined, or chunk_index has no entry in chunk_index_to_id)
\* leaves last_profiles as it was before the call, and a snapshot row is
\* written only when the enrichment succeeded and the index is mapped.
C15_NoSnapshotLeavesProfiles ==
    [][ (IsProfileRefresherStep /\ error' = "none") =>
          /\ Len(chunk_character_profiles') = Len(ProfilesAtEntry)
                => state'.last_profiles = state.last_profiles
          /\ Len(chunk_character_profiles') > Len(ProfilesAtEntry)
                => (~EnrichmentDeclined(response') /\ ChunkIdMapped(state))
      ]_vars

\* the step taken is a call of profile_retriever_creator that returned
IsProfileRetrieverCreatorStep ==
    pc = "synthesize_skeletons" /\ pc' = "enrich_profiles"

\* C16: profile_retriever_creator builds a skeleton only for a mention whose
\* name last_profiles does not hold yet; a profile that last_profiles holds
\* for a mentioned name is kept, not replaced by an empty skeleton.
C16_KnownProfileKept ==
    [][ (IsProfileRetrieverCreatorStep /\ state.last_profiles # None) =>
          \A i \in 1..Len(state.last_profiles.items) :
              (\E m \in 1..Len(state.last_appearing_characters.items) :
                   state.last_appearing_characters.items[m].name
                       = state.last_profiles.items[i].name)
              => \E j \in 1..Len(state'.last_profiles.items) :
                     state'.last_profiles.items[j]
                         = state.last_profiles.items[i]
      ]_vars

\* C17: profile_retriever_creator is idempotent: on the state its first run
\* produced, with the same last_appearing_characters, a second run returns
\* the same last_profiles (the same names with the same skeleton fields).
C17_SynthesisIdempotent ==
    pc = "enrich_profiles" =>
        LET second == profile_retriever_creator(state) IN
          /\ second.raised = "none"
          /\ second.delta.last_profiles = state.last_profiles
          /\ Merge(state, second.delta) = state

\* profile_retriever_creator has run in the second cycle on two mentions
C17_Witness ==
    /\ pc = "enrich_profiles"
    /\ state.chunk_index = 2
    /\ Len(state.last_appearing_characters.items) = 2
    /\ Len(state.last_profiles.items) = 2

\* the step taken ends a call of summarizer
IsSummarizerStep ==
    pc = "refresh_summary" /\ pc' \in {"chunk_advance", "failed"}

\* in the step taken summarizer calls the collaborator
IsSummarizerCall == pc = "refresh_summary" /\ llm_calls' = llm_calls + 1

\* C18: in cycle k the text profile_refresher hands to the enrichment is
\* the last_summary that summarizer produced in cycle k-1, the empty string
\* in the first cycle: at the enrichment exactly the chunks before the
\* current one have been folded, last_summary changes in calls of
\* summarizer only, and summarizer folds chunk k after the enrichment of
\* cycle k.
C18_EnrichmentSeesPreviousSummary ==
    /\ [][ IsProfileRefresherStep =>
             /\ request'.text = state.last_summary
             /\ summarized = SubSeq(pulled, 1, Len(pulled) - 1)
             /\ Len(pulled) = 1 => request'.text = "" ]_vars
    /\ [][ state'.last_summary # state.last_summary => IsSummarizerStep ]_vars
    /\ [][ IsSummarizerCall => request.node = "profile_refresher" ]_vars
    /\ [][ (IsSummarizerStep /\ error' = "none") =>
             /\ state'.last_summary = response'.value.chars
             /\ summarized' = pulled ]_vars

\* the enrichment of the second cycle was handed the summary of the first
C18_Witness ==
    /\ request.node = "profile_refresher"
    /\ Len(pulled) = 2
    /\ Len(summarized) = 1
    /\ request.text = "summary two"

\* the step taken is a call of second_name_querier that returned
IsSecondNameQuerierStep ==
    pc = "recognize_from_summary" /\ pc' = "synthesize_skeletons"

\* the mentions in a value of last_appearing_characters
MentionsIn(v) == IF v = None THEN {} ELSE { v.items[i] : i \in 1..Len(v.items) }

\* C19: when both recognition passes run in a cycle, the mention list
\* profile_retriever_creator consumes holds every mention the overlap pass
\* returned and every mention the summary pass returned.
C19_BothPassesFeedMentions ==
    [][ IsSecondNameQuerierStep =>
          /\ MentionsIn(state.last_appearing_characters)
                \subseteq MentionsIn(state'.last_appearing_characters)
          /\ MentionsIn(CharactersOf(response'))
                \subseteq MentionsIn(state'.last_appearing_characters)
      ]_vars

\* what run r put into chunks, without the store's identities
ChunkRowsOf(r) ==
    LET first == runs[r].chunks + 1 IN
      [i \in 1..Cardinality(RunChunks(r)) |->
          [sequence_index |-> chunks_table[first + i - 1].chunk_index,
           text |-> chunks_table[first + i - 1].chunk_text]]

\* the sequence index of the chunk with the given identity
SequenceIndexOf(chunk_id) ==
    LET k == CHOOSE k \in 1..Len(chunks_table) :
                 chunks_table[k].chunk_id = chunk_id
    IN chunks_table[k].chunk_index

\* what run r put into chunk_character_profiles: each document with the
\* sequence index of the chunk it is attached to
SnapshotsOf(r) ==
    LET first == runs[r].profiles + 1 IN
      [i \in 1..Cardinality(RunSnapshots(r)) |->
          [sequence_index |->
               SequenceIndexOf(chunk_character_profiles[first + i - 1].chunk_id),
           document |-> chunk_character_profiles[first + i - 1].profile_json]]

\* C20: with a deterministic collaborator a run on the same document
\* produces the same sequence of chunk rows (sequence index, text) and the
\* same sequence of snapshot documents attached to chunks of the same
\* sequence index as the run before it, store identities aside, though it
\* starts on the store the earlier run filled.
C20_RunsAgree ==
    (pc \in {"done", "failed"} /\ Len(runs) >= 2) =>
        /\ ChunkRowsOf(Len(runs)) = ChunkRowsOf(Len(runs) - 1)
        /\ SnapshotsOf(Len(runs)) = SnapshotsOf(Len(runs) - 1)

\* a second run over three chunks has ended on the store of the first and
\* has written snapshots under two chunks
C20_Witness ==
    /\ pc = "done"
    /\ Len(runs) = 2
    /\ runs[2].chunks = 3
    /\ Len(chunks_table) = 6
    /\ \E i, j \in RunSnapshots(2) :
         chunk_character_profiles[i].chunk_id
             # chunk_character_profiles[j].chunk_id

\* C30: chunk_index is the number of chunk_updater calls that yielded a
\* chunk so far; in a run over N chunks it stays within 0..N, never
\* decreases, and is N when no_more_chunks is set.
C30_ChunkIndexCountsAdvances ==
    /\ [](state.chunk_index = Len(pulled))
    /\ [](state.chunk_generator # None =>
            /\ state.chunk_index \in 0..Len(state.chunk_generator.chunks)
            /\ state.no_more_chunks =>
                  state.chunk_index = Len(state.chunk_generator.chunks))
    /\ [][state'.chunk_index >= state.chunk_index]_vars

\* the cursor over three chunks is exhausted and the terminal flag is set
C30_Witness ==
    /\ pc = "done"
    /\ state.no_more_chunks
    /\ state.chunk_index = 3
    /\ Len(pulled) = 3

\* the document the run reads
Document == files[BookPath]

\* C25: a chunk_updater call that yields a chunk sets previous_chunk to the
\* old current_chunk, current_chunk to the next chunk of the cursor,
\* chunk_index to the old value plus one and no_more_chunks to false; so in
\* every cycle after the first previous_chunk is the chunk just before
\* current_chunk in the document, and in the first cycle it is empty.
C25_AdvanceShiftsChunks ==
    /\ [][ (IsChunkUpdaterStep /\ pulled' # pulled) =>
             /\ state'.previous_chunk = state.current_chunk
             /\ state'.current_chunk = Document[Len(pulled) + 1]
             /\ state'.chunk_index = state.chunk_index + 1
             /\ state'.no_more_chunks = FALSE ]_vars
    /\ [](Len(pulled) >= 1 =>
            /\ state.current_chunk = Document[Len(pulled)]
            /\ state.previous_chunk =
                  IF Len(pulled) = 1 THEN "" ELSE Document[Len(pulled) - 1])

\* the third cycle: the second chunk is previous, the third current
C25_Witness ==
    /\ pc = "recognize_from_overlap"
    /\ Len(pulled) = 3
    /\ state.previous_chunk = TextPool[2]
    /\ state.current_chunk = TextPool[3]

\* the fields of the state that the node run at position p may change; the
\* generator held in chunk_generator stays the same object, chunk_updater
\* moves its cursor
OwnFields(p) ==
    CASE p \in {"recognize_from_overlap", "recognize_from_summary"} ->
           {"last_appearing_characters"}
      [] p \in {"synthesize_skeletons", "enrich_profiles"} -> {"last_profiles"}
      [] p = "refresh_summary" -> {"last_summary"}
      [] p \in {"chunk_advance", "done"} ->
           {"previous_chunk", "current_chunk", "chunk_index",
            "no_more_chunks", "chunk_generator"}
      [] OTHER -> {}

\* C23: each step changes only its own fields of the state: the two
\* recognition steps last_appearing_characters, profile_retriever_creator
\* and profile_refresher last_profiles, summarizer last_summary,
\* chunk_updater previous_chunk, current_chunk, chunk_index and
\* no_more_chunks (advancing the cursor of the same generator); and
\* chunk_index_to_id, once chunker has set it, is never changed.
C23_StepsChangeOwnFields ==
    [][ pc # "start" =>
          /\ DOMAIN state' = DOMAIN state
          /\ \A f \in DOMAIN state \ OwnFields(pc) : state'[f] = state[f]
          /\ state'.chunk_index_to_id = state.chunk_index_to_id
          /\ state'.chunk_generator.chunks = state.chunk_generator.chunks
      ]_vars

\* two cycles have run: every node has written its fields
C23_Witness ==
    /\ pc = "chunk_advance"
    /\ state.chunk_index = 2
    /\ state.last_summary = "summary two"
    /\ state.last_appearing_characters = List(<< Ali, Sara >>)
    /\ Len(state.last_profiles.items) = 2
    /\ state.previous_chunk = TextPool[1]

\* the fields a snapshot document holds
DocumentFields ==
    {"name", "hint", "age", "role", "physical_characteristics",
     "personality", "events", "relationships", "aliases"}

\* field f of a returned profile, as the Profile record and the snapshot
\* document name it
ReturnedField(profile_data, f) ==
    IF f = "relationships" THEN profile_data.relations ELSE profile_data[f]

\* C24: when the enrichment answers k profiles and chunk_index is mapped,
\* profile_refresher appends exactly k snapshot rows, one per returned
\* profile in response order and all under the same chunk identity, and
\* sets last_profiles to the k returned profiles in the same order; the
\* document of each row holds name, hint, age, role,
\* physical_characteristics, personality, events, relationships and
\* aliases of its profile.
C24_OneSnapshotPerReturnedProfile ==
    [][ ( /\ IsProfileRefresherStep
          /\ response'.kind = "obj"
          /\ response'.value # None
          /\ ChunkIdMapped(state) ) =>
          LET returned == response'.value.items
              k == Len(returned)
              old == Len(ProfilesAtEntry)
          IN /\ Len(chunk_character_profiles') = old + k
             /\ Len(state'.last_profiles.items) = k
             /\ \A i \in 1..k :
                  LET row == chunk_character_profiles'[old + i] IN
                    /\ row.chunk_id = chunk_character_profiles'[old + 1].chunk_id
                    /\ row.chunk_id \in
                         { state.chunk_index_to_id[x] :
                               x \in DOMAIN state.chunk_index_to_id }
                    /\ DOMAIN row.profile_json = DocumentFields
                    /\ \A f \in DocumentFields :
                         /\ row.profile_json[f] = ReturnedField(returned[i], f)
                         /\ state'.last_profiles.items[i][f]
                              = ReturnedField(returned[i], f)
      ]_vars

\* an enrichment that answered two profiles under a mapped index has
\* written its two rows
C24_Witness ==
    /\ pc = "refresh_summary"
    /\ response = RespObj(List(<< ProfileData("Ali"), ProfileData("Sara") >>))
    /\ Len(chunk_character_profiles) = 2
    /\ chunk_character_profiles[1].profile_json.name = "Ali"
    /\ chunk_character_profiles[2].profile_json.name = "Sara"

\* the last n characters of the string s
LastChars(s, n) == SubSeq(s, Len(s) - n + 1, Len(s))

\* C27: the text summarizer sends is the last S - 2*floor(S/3) characters
\* of the previous summary (of length S), a space and the current chunk, so
\* it is at most floor(S/3) + 3 + |current_chunk| long; the summary the
\* collaborator returns then replaces last_summary whole.
C27_SummarizerUsesTrailingThird ==
    [][ IsSummarizerStep =>
          LET S == Len(state.last_summary) IN
            /\ request'.text =
                  LastChars(state.last_summary, S - 2 * (S \div 3))
                      \o " " \o state.current_chunk
            /\ Len(request'.text)
                  <= (S \div 3) + 3 + Len(state.current_chunk)
            /\ error' = "none" => state'.last_summary = response'.value.chars
      ]_vars

\* the summarizer of the second cycle was fed the tail of an eleven
\* character summary and its answer has replaced that summary
C27_Witness ==
    /\ request.node = "summarizer"
    /\ inside = Idle
    /\ Len(pulled) = 2
    /\ request.text = "y two " \o TextPool[2]
    /\ response = RespObj(Str("s1"))
    /\ state.last_summary = "s1"

\* C28: within a run the inserts come in chunk order: the rows of chunks
\* are inserted in increasing sequence index, all of them before the first
\* collaborator call and before the first snapshot row, and the chunk
\* identities of successive snapshot rows never decrease.
C28_InsertsInChunkOrder ==
    /\ [](\A i, j \in 1..Len(chunks_table) :
             i < j => chunks_table[i].chunk_index < chunks_table[j].chunk_index)
    /\ []((llm_calls > 0 \/ chunk_character_profiles # << >>) =>
             /\ pc # "start"
             /\ Len(chunks_table) = Len(Document))
    /\ [][ chunks_table' # chunks_table =>
             /\ pc = "start"
             /\ llm_calls = 0
             /\ chunk_character_profiles = << >> ]_vars
    /\ [](\A i, j \in 1..Len(chunk_character_profiles) :
             i < j => chunk_character_profiles[i].chunk_id
                         <= chunk_character_profiles[j].chunk_id)

\* snapshots were written in two cycles of a run over three chunks
C28_Witness ==
    /\ Len(chunks_table) = 3
    /\ Len(chunk_character_profiles) >= 3
    /\ chunk_character_profiles[1].chunk_id = 2
    /\ chunk_character_profiles[Len(chunk_character_profiles)].chunk_id = 3

\* in the step taken first_name_querier calls the collaborator
IsFirstNameQuerierStep ==
    pc = "recognize_from_overlap" /\ llm_calls' = llm_calls + 1

\* C26: the text first_name_querier sends is the trailing third of
\* previous_chunk, a space and all of current_chunk: of a previous chunk of
\* length L exactly the last L - 2*floor(L/3) characters, which are at
\* least L/3 and at most floor(L/3) + 2 characters and not the whole chunk
\* once L >= 3; in the first cycle there is no previous-chunk text.
C26_OverlapIsTrailingThird ==
    [][ IsFirstNameQuerierStep =>
          LET L == Len(state.previous_chunk)
              n == L - 2 * (L \div 3)
          IN /\ request'.text =
                   LastChars(state.previous_chunk, n)
                       \o " " \o state.current_chunk
             /\ 3 * n >= L
             /\ n <= (L \div 3) + 2
             /\ L >= 3 => n < L
             /\ Len(pulled) = 1 => request'.text = " " \o state.current_chunk
      ]_vars

\* the overlap window of an eight character previous chunk is its last
\* four characters
C26_Witness ==
    /\ request.node = "first_name_querier"
    /\ state.previous_chunk = "abcdefgh"
    /\ request.text = "efgh xyz"

\* the step taken is a step of the pipeline, not an operation of another
\* caller on the store
IsPipelineStep ==
    \/ pc' # pc
    \/ llm_calls' # llm_calls
    \/ updater_calls' # updater_calls
    \/ inside' # inside

\* C29: only chunker inserts into chunks and only profile_refresher inserts
\* into chunk_character_profiles, and what it inserts are documents of
\* profiles the collaborator returned, never skeletons; the recognition
\* steps, profile_retriever_creator, chunk_updater and summarizer leave the
\* whole store as it is, and no step of the pipeline inserts, updates or
\* deletes a row of the legacy table characters.
C29_WritersOfTheStore ==
    [][ /\ chunks_table' # chunks_table
              => (pc = "start" /\ inside'.at = "writing")
        /\ chunk_character_profiles' # chunk_character_profiles
              => (pc = "enrich_profiles" /\ inside'.at = "writing")
        /\ pc = "enrich_profiles" =>
              \A j \in (Len(chunk_character_profiles) + 1)
                          .. Len(chunk_character_profiles') :
                  /\ ~EnrichmentDeclined(response')
                  /\ \E i \in 1..Len(response'.value.items) :
                       \A f \in DocumentFields :
                           chunk_character_profiles'[j].profile_json[f]
                               = ReturnedField(response'.value.items[i], f)
        /\ IsPipelineStep => characters' = characters
      ]_vars

\* a cycle has run through a declined enrichment of a skeleton while the
\* legacy table held a row
C29_Witness ==
    /\ pc = "refresh_summary"
    /\ EnrichmentDeclined(response)
    /\ Len(state.last_profiles.items) >= 1
    /\ chunk_character_profiles = << >>
    /\ Len(characters) = 1

\* t is s with rows appended, or s itself
Extends(t, s) == Len(t) >= Len(s) /\ SubSeq(t, 1, Len(s)) = s

\* C21: when the run is aborted, between two nodes, inside chunk_updater
\* after the generator has advanced, inside a node waiting for the
\* collaborator or holding its answer, or between two inserts inside
\* chunker or profile_refresher, every row committed before is still
\* there unchanged, whatever happens to the store afterwards; every insert
\* that had returned is committed; every row is a whole row; every
\* snapshot row references an existing row of chunks; and no step writes
\* to both tables.
C21_AbortKeepsCommittedRows ==
    /\ [][ /\ Extends(chunks_table', chunks_table)
           /\ Extends(chunk_character_profiles', chunk_character_profiles)
           /\ ~( /\ chunks_table' # chunks_table
                 /\ chunk_character_profiles' # chunk_character_profiles )
         ]_vars
    /\ [][ (pc # "aborted" /\ pc' = "aborted") =>
             /\ chunks_table' = chunks_table
             /\ chunk_character_profiles' = chunk_character_profiles
             /\ fault'.inserts = inside.inserts ]_vars
    /\ [](\A i \in 1..Len(chunks_table) :
             DOMAIN chunks_table[i] = {"chunk_id", "chunk_index", "chunk_text"})
    /\ [](\A j \in 1..Len(chunk_character_profiles) :
             /\ DOMAIN chunk_character_profiles[j] = {"chunk_id", "profile_json"}
             /\ DOMAIN chunk_character_profiles[j].profile_json = DocumentFields
             /\ \E i \in 1..Len(chunks_table) :
                  chunks_table[i].chunk_id
                      = chunk_character_profiles[j].chunk_id)

\* the run was aborted inside profile_refresher after the first of two
\* inserts, and the legacy table was used afterwards
C21_Witness ==
    /\ pc = "aborted"
    /\ fault = [kind |-> "abort", node |-> "profile_refresher", inserts |-> 1]
    /\ Len(response.value.items) = 2
    /\ Len(chunk_character_profiles) = 1
    /\ uuids_drawn = 1

\* C22: when insert_chunk_character_profile fails inside profile_refresher,
\* the run ends with an error, not with the carry-forward of a decline, and
\* the state in memory (last_profiles, last_summary, the chunks,
\* chunk_index, the mapping) is what it was before the step.
C22_InsertFailureIsAnError ==
    [][ ( /\ fault'.kind = "insert failure"
          /\ fault'.node = "profile_refresher"
          /\ fault.kind # "insert failure" ) =>
          /\ error' # "none"
          /\ error' # "CollaboratorError"
          /\ pc' = "failed"
          /\ state' = state ]_vars

\* the second of two inserts failed: the run has ended with the error and
\* the skeletons are still the profiles in memory
C22_Witness ==
    /\ pc = "failed"
    /\ fault = [kind |-> "insert failure", node |-> "profile_refresher",
                inserts |-> 1]
    /\ error = "sqlite3.Error"
    /\ Len(state.last_profiles.items) = 2
    /\ state.last_profiles.items[1] = SkeletonProfile(Ali)

\* C31: after profile_retriever_creator last_profiles has the length and
\* the order of last_appearing_characters: element j carries the name and
\* the hint of mention j, empty age, role, personality and id, and empty
\* lists of physical characteristics, events, relationships and aliases;
\* mentions of one name are not merged.
C31_OneSkeletonPerMention ==
    [][ IsProfileRetrieverCreatorStep =>
          LET mentions == state.last_appearing_characters.items
              profiles == state'.last_profiles.items
          IN /\ state'.last_appearing_characters
                  = state.last_appearing_characters
             /\ Len(profiles) = Len(mentions)
             /\ \A j \in 1..Len(mentions) :
                  /\ DOMAIN profiles[j] = DocumentFields \cup {"id"}
                  /\ profiles[j].name = mentions[j].name
                  /\ profiles[j].hint = mentions[j].hint
                  /\ \A f \in {"age", "role", "personality", "id"} :
                       profiles[j][f] = ""
                  /\ \A f \in {"physical_characteristics", "events",
                                "relationships", "aliases"} :
                       profiles[j][f] = << >>
      ]_vars

\* a name mentioned twice has been given two skeletons
C31_Witness ==
    /\ pc = "enrich_profiles"
    /\ state.last_appearing_characters = List(<< Sara, Sara >>)
    /\ Len(state.last_profiles.items) = 2
    /\ state.last_profiles.items[1].name = "Sara"
    /\ state.last_profiles.items[2].name = "Sara"

====
